---- MODULE Spec2Model ----
(***************************************************************************)
(* A model of the backup orchestration engine of audio-backup-cron:        *)
(*   StorageBackup.backup / backupFile   (src/src/backup.ts)               *)
(*   SupabaseStorage.listAllFiles        (src/src/supabase.ts)             *)
(*   S3Uploader.fileExists / generateS3Key (s3.ts)                         *)
(*   BackupScheduler.shouldRunBackup / matchCronField (scheduler.ts)       *)
(*   loadConfig                          (src/src/config.ts)               *)
(*                                                                         *)
(* Strings are sequences of one-character strings, so that joining,        *)
(* splitting, prefix tests and character replacement are computed.         *)
(* JavaScript numbers that can be NaN are records [nan, v].                *)
(***************************************************************************)
EXTENDS Integers, Sequences, FiniteSets, TLC

(***************************************************************************)
(* Bounds of the model                                                     *)
(***************************************************************************)
\* the longest list of objects an enumeration hands to a run
MaxFiles == 2

\* loop iterations after which a run that makes no progress is cut off
MaxIter == MaxFiles + 2

\* the largest number of objects in a source bucket that is scanned
MaxObjects == 3

\* the largest number of runs a scheduler starts (the initial one included)
MaxRuns == 3

(***************************************************************************)
(* JavaScript numbers                                                      *)
(***************************************************************************)
NaN == [nan |-> TRUE, v |-> 0]

Num(n) == [nan |-> FALSE, v |-> n]

\* a < b : false as soon as one side is NaN
JsLt(a, b) == ~a.nan /\ ~b.nan /\ a.v < b.v

\* a + b : NaN as soon as one side is NaN
JsAdd(a, b) == IF a.nan \/ b.nan THEN NaN ELSE Num(a.v + b.v)

\* Math.min(a, b)
JsMin(a, b) == IF a.nan \/ b.nan THEN NaN ELSE IF a.v < b.v THEN a ELSE b

\* the relative index Array.prototype.slice computes from an argument
SliceIndex(len, a) ==
  IF a.nan THEN 0
  ELSE IF a.v < 0 THEN (IF len + a.v < 0 THEN 0 ELSE len + a.v)
  ELSE IF a.v > len THEN len ELSE a.v

\* Array.prototype.slice(start, end) on an array of length len, as the set
\* of (1-based) positions it selects
Slice(len, start, end) == (SliceIndex(len, start) + 1) .. SliceIndex(len, end)

(***************************************************************************)
(* parseInt(s, 10) on a string given as a sequence of characters           *)
(***************************************************************************)
Digits == {"0", "1", "2", "3", "4", "5", "6", "7", "8", "9"}

DigitVal(c) ==
  CASE c = "0" -> 0 [] c = "1" -> 1 [] c = "2" -> 2 [] c = "3" -> 3
    [] c = "4" -> 4 [] c = "5" -> 5 [] c = "6" -> 6 [] c = "7" -> 7
    [] c = "8" -> 8 [] c = "9" -> 9

RECURSIVE SkipSpaces(_)
SkipSpaces(s) ==
  IF s # <<>> /\ Head(s) = " " THEN SkipSpaces(Tail(s)) ELSE s

\* the value of the longest run of digits s starts with, acc being the value
\* of the digits already read
RECURSIVE DigitRun(_, _)
DigitRun(s, acc) ==
  IF s # <<>> /\ Head(s) \in Digits
  THEN DigitRun(Tail(s), 10 * acc + DigitVal(Head(s)))
  ELSE acc

ParseInt(str) ==
  LET s == SkipSpaces(str)
      neg == s # <<>> /\ Head(s) = "-"
      body == IF s # <<>> /\ Head(s) \in {"-", "+"} THEN Tail(s) ELSE s
  IN IF body = <<>> \/ Head(body) \notin Digits THEN NaN
     ELSE Num(IF neg THEN 0 - DigitRun(body, 0) ELSE DigitRun(body, 0))

(***************************************************************************)
(* Configuration (config.ts)                                               *)
(***************************************************************************)
\* values of the BATCH_SIZE environment variable; <<>> is unset or empty
BatchSizeEnv == {<<>>, <<"1">>, <<"2">>, <<"0">>, <<"-", "1">>, <<"x">>}

\* loadConfig: parseInt(process.env.BATCH_SIZE || "5", 10)
LoadBatchSize(env) == ParseInt(IF env = <<>> THEN <<"5">> ELSE env)

\* loadS3Config: process.env.S3_PREFIX || "supabase-backups/audio"
\* (the default is shortened to "s/a")
LoadS3Prefix(env) == IF env = <<>> THEN <<"s", "/", "a">> ELSE env

\* the prefix of the S3Uploader of the run
s3Prefix == LoadS3Prefix(<<>>)

(***************************************************************************)
(* Strings                                                                 *)
(***************************************************************************)
IsPrefix(p, s) == Len(p) <= Len(s) /\ SubSeq(s, 1, Len(p)) = p

\* S3Uploader.generateS3Key
GenerateS3Key(prefix, filePath) ==
  IF prefix # <<>> THEN prefix \o <<"/">> \o filePath ELSE filePath

\* backupFile: file.path.replace(/\//g, "_")
TempFileName(path) ==
  [j \in 1..Len(path) |-> IF path[j] = "/" THEN "_" ELSE path[j]]

(***************************************************************************)
(* Objects a run is handed by the enumeration                              *)
(***************************************************************************)
\* backupFile: 100 * 1024 * 1024
BufferLimit == 100 * 1024 * 1024

\* the objects of the source bucket: two whose staged names collide, one
\* whose key is a prefix of another's, one at the size limit of the buffered
\* strategy (listAllFiles only returns entries whose metadata.size is truthy)
Files ==
  {[path |-> <<"a">>, size |-> 1],
   [path |-> <<"a", "/", "b">>, size |-> 1],
   [path |-> <<"a", "_", "b">>, size |-> BufferLimit]}

Paths == {f.path : f \in Files}

\* the number of folders above a path
Depth(path) == Cardinality({j \in 1..Len(path) : path[j] = "/"})

\* what listAllFiles can return: no path twice, and in breadth-first order
\* (the files of a folder are collected before those of its subfolders)
FileLists ==
  UNION {{l \in [1..n -> Files] :
            \A x, y \in 1..n :
              x < y => l[x].path # l[y].path /\ Depth(l[x].path) <= Depth(l[y].path)} :
         n \in 0..MaxFiles}

\* error messages: the timeout raised by downloadFile, an error whose message
\* contains "already exists", any other error
ErrTimeout == "Download timeout after 60s"
ErrAlreadyExists == "... already exists ..."
ErrOther == "other error"

\* backup: error.message.includes("already exists")
IncludesAlreadyExists(msg) == msg = ErrAlreadyExists \/ msg = "File already exists"

(***************************************************************************)
(* State of one run of StorageBackup.backup                                *)
(***************************************************************************)
VARIABLES
  batchSize,      \* config.batchSize
  pc,             \* position of backup()
  allFiles,       \* the enumerated objects
  i,              \* loop variable of the batch loop
  batch,          \* positions of allFiles in the batch being awaited
  batchNo,        \* number of batches started
  transfers,      \* per object: the state of its transfer (see NewTransfer)
  successCount, skipCount, errorCount,
  tempDirExists,  \* config.tempDir exists
  tempFiles,      \* staged files: [name, content], content the path of the
                  \* object whose bytes the file holds
  s3,             \* destination objects: [key, content]
  metrics,        \* BackupMetrics handed to the notifier, <<>> if none
  notified        \* number of sendBackupNotification calls

(***************************************************************************)
(* State of one call of SupabaseStorage.listAllFiles (which builds         *)
(* allFiles), and the source bucket it scans                               *)
(***************************************************************************)
VARIABLES
  bucket,            \* the objects of the source bucket: [path, size]
  foldersToProcess,  \* the queue of paths to list
  processedFolders,  \* the paths taken from the queue and listed
  listFailed,        \* the paths whose listing failed
  listCalls          \* the paths passed to list(), in call order

listVars == <<bucket, foldersToProcess, processedFolders, listFailed, listCalls>>

(***************************************************************************)
(* State of the scheduler's cron check (BackupScheduler.shouldRunBackup)   *)
(***************************************************************************)
VARIABLES
  cronSchedule,  \* config.cronSchedule, a string
  now,           \* the local time of the check: [minutes, hours, date,
                 \* month (1..12), day (0 = Sunday)], <<>> if none is made
  shouldRun      \* what the last check returned: "none", "true" or "false"

cronVars == <<cronSchedule, now, shouldRun>>

(***************************************************************************)
(* State of the process (main) around a run                                *)
(***************************************************************************)
VARIABLES
  slackWebhookUrl,  \* config.slackWebhookUrl is set
  exitCode,  \* the code passed to process.exit: "none", "0" or "1"; "signal"
             \* when the process was ended by a signal it does not handle
  cleanup,   \* cleanupTempDir of the run: "none", "removed" or "rejected"
  delivery,  \* sendBackupNotification of the run: "none", "unconfigured"
             \* (no webhook URL), "sent" or "failed"
  previous   \* the run before this one: [files, outcomes, dest], the list
             \* it enumerated, the outcome of each object of the list and
             \* the destination it left; <<>> in a first run

procVars == <<slackWebhookUrl, exitCode, cleanup, delivery, previous>>

(***************************************************************************)
(* State of the scheduler (BackupScheduler.start)                          *)
(***************************************************************************)
VARIABLES
  schedPc,     \* position of start(): "off" outside scheduler mode,
               \* "initialRun", "polling", "exited"
  runs,        \* the calls of backup() made so far, see NewRun
  intervalId,  \* the interval timer is set
  handlers,    \* the SIGINT and SIGTERM handlers are registered
  signalled    \* a signal has arrived

schedVars == <<schedPc, runs, intervalId, handlers, signalled>>

runVars == <<batchSize, i, batch, batchNo, transfers, successCount, skipCount,
             errorCount, tempDirExists, tempFiles, s3, metrics, notified>>

vars == <<pc, allFiles, runVars, listVars, cronVars, procVars, schedVars>>

N == Len(allFiles)

\* the transfer of an object that no batch has started yet
NewTransfer ==
  [pc        |-> "none",    \* position inside the map callback / backupFile
   err       |-> "",        \* the error the staged strategy is about to throw
   outcome   |-> "none",    \* "success", "skip" or "error" once resolved
   probe     |-> "none",    \* answer of fileExists; "failed" when it errored
   probes    |-> 0,         \* fileExists calls issued
   reads     |-> 0,         \* downloadFile calls issued
   writes    |-> 0,         \* uploadBuffer / uploadFile calls issued
   buffered  |-> "none",    \* buffered strategy: "entered", "failed", "ok"
   staged    |-> "none",    \* staged strategy: "entered", "failed", "ok"
   rmKept    |-> FALSE,     \* the last rm of the staged file was rejected
   startedIn |-> 0]         \* the batch that started the transfer

\* destinations a run can start from: empty, or holding the copy of a/b an
\* earlier run made
InitialS3 ==
  {{}, {[key |-> GenerateS3Key(s3Prefix, <<"a", "/", "b">>),
         content |-> <<"a", "/", "b">>]}}

\* the process is not modelled beyond the run
ProcIdle ==
  /\ slackWebhookUrl = FALSE
  /\ exitCode = "none"
  /\ cleanup = "none"
  /\ delivery = "none"
  /\ previous = <<>>

\* the process is not in scheduler mode
SchedIdle ==
  /\ schedPc = "off"
  /\ runs = <<>>
  /\ intervalId = FALSE
  /\ handlers = FALSE
  /\ signalled = FALSE

\* the scheduler has made no cron check
CronIdle ==
  /\ cronSchedule = <<"0", " ", "2", " ", "*", " ", "*", " ", "*">>
  /\ now = <<>>
  /\ shouldRun = "none"

\* no enumeration is modelled step by step
ListIdle ==
  /\ bucket = {}
  /\ foldersToProcess = <<>>
  /\ processedFolders = {}
  /\ listFailed = {}
  /\ listCalls = <<>>

Init ==
  /\ ListIdle
  /\ CronIdle
  /\ SchedIdle
  /\ ProcIdle
  /\ batchSize \in {LoadBatchSize(e) : e \in BatchSizeEnv}
  /\ pc = "idle"
  /\ allFiles = <<>>
  /\ i = Num(0)
  /\ batch = {}
  /\ batchNo = 0
  /\ transfers = <<>>
  /\ successCount = 0
  /\ skipCount = 0
  /\ errorCount = 0
  /\ tempDirExists \in BOOLEAN
  /\ tempFiles = {}
  /\ s3 \in InitialS3
  /\ metrics = <<>>
  /\ notified = 0

(***************************************************************************)
(* The file system and the destination                                     *)
(***************************************************************************)
\* writeFile(tempFilePath, buffer): creates or overwrites
WriteTemp(fs, name, content) ==
  {t \in fs : t.name # name} \cup {[name |-> name, content |-> content]}

\* rm(tempFilePath, { force: true })
RmTemp(fs, name) == {t \in fs : t.name # name}

TempExists(fs, name) == \E t \in fs : t.name = name

\* PutObject / Upload: overwrite by key
PutObject(dest, key, content) ==
  {o \in dest : o.key # key} \cup {[key |-> key, content |-> content]}

\* S3Uploader.fileExists without a failure: ListObjectsV2 with Prefix = key,
\* MaxKeys = 1, true when Contents is not empty
FileExists(dest, filePath) ==
  \E o \in dest : IsPrefix(GenerateS3Key(s3Prefix, filePath), o.key)

(***************************************************************************)
(* main in one-time mode (--once / -o)                                     *)
(***************************************************************************)
\* const config = loadConfig(): it throws when the Supabase or S3 settings
\* are incomplete, and the catch of main exits with 1; otherwise backup() is
\* called
LoadConfig ==
  /\ pc = "main"
  /\ exitCode = "none"
  /\ \/ /\ pc' = "idle"
        /\ UNCHANGED exitCode
     \/ /\ pc' = "fatal"
        /\ exitCode' = "1"
  /\ UNCHANGED <<allFiles, runVars, listVars, cronVars, schedVars,
                 slackWebhookUrl, cleanup, delivery, previous>>

\* a main that exits with 1 when the run left failed objects
MainExitCodeStrict(threw, failed) == IF threw \/ failed > 0 THEN "1" ELSE "0"

\* main after await backup.backup(): process.exit(0) when it returned,
\* process.exit(1) in the catch when it threw; the number of failed objects
\* plays no part
MainExitCode(threw, failed) == IF threw THEN "1" ELSE "0"

\* await backup.backup() resumes in main
MainExit ==
  /\ pc \in {"done", "returned", "threw"}
  /\ exitCode = "none"
  /\ exitCode' = MainExitCode(pc = "threw", errorCount)
  /\ UNCHANGED <<pc, allFiles, runVars, listVars, cronVars, schedVars,
                 slackWebhookUrl, cleanup, delivery, previous>>

(***************************************************************************)
(* StorageBackup.backup                                                    *)
(***************************************************************************)
\* ensureTempDir: mkdir when the directory is missing; a failing mkdir makes
\* backup() throw
EnsureTempDir ==
  /\ pc = "idle"
  /\ \/ /\ tempDirExists
        /\ pc' = "listAllFiles"
        /\ UNCHANGED tempDirExists
     \/ /\ ~tempDirExists
        /\ tempDirExists' = TRUE
        /\ pc' = "listAllFiles"
     \/ /\ ~tempDirExists
        /\ pc' = "threw"
        /\ UNCHANGED tempDirExists
  /\ UNCHANGED <<listVars, cronVars, schedVars, procVars, batchSize, allFiles, i, batch, batchNo, transfers,
                 successCount, skipCount, errorCount, tempFiles, s3, metrics,
                 notified>>

\* const allFiles = await this.supabase.listAllFiles(); the early return on an
\* empty list; the counters and the loop variable start at 0 (the source does
\* not change between two runs)
ListAllFiles ==
  /\ pc = "listAllFiles"
  /\ \E l \in FileLists :
       /\ previous # <<>> => l = previous.files
       /\ allFiles' = l
       /\ transfers' = [f \in 1..Len(l) |-> NewTransfer]
       /\ pc' = IF Len(l) = 0 THEN "returned" ELSE "loop"
  /\ successCount' = 0
  /\ skipCount' = 0
  /\ errorCount' = 0
  /\ i' = Num(0)
  /\ UNCHANGED <<listVars, cronVars, schedVars, procVars, batchSize, batch, batchNo, tempDirExists, tempFiles, s3,
                 metrics, notified>>

\* a batch loop that slices to the end of the list instead of i + batchSize
BatchSliceToEnd(len, idx, size) == Slice(len, idx, Num(len))

\* allFiles.slice(i, Math.min(i + batchSize, allFiles.length))
BatchSlice(len, idx, size) == Slice(len, idx, JsMin(JsAdd(idx, size), Num(len)))

\* the loop condition i < allFiles.length
LoopCondition(idx, len) == JsLt(idx, Num(len))

\* one iteration of the batch loop up to Promise.all: batch.map starts every
\* transfer of the batch, each of which runs up to its first await (fileExists)
StartBatch ==
  /\ pc = "loop"
  /\ LoopCondition(i, N)
  /\ batchNo < MaxIter
  /\ batch' = BatchSlice(N, i, batchSize)
  /\ batchNo' = batchNo + 1
  /\ transfers' = [f \in 1..N |->
                     IF f \in batch'
                     THEN [transfers[f] EXCEPT !.pc = "fileExists",
                                               !.probes = @ + 1,
                                               !.startedIn = batchNo + 1]
                     ELSE transfers[f]]
  /\ pc' = "await"
  /\ UNCHANGED <<listVars, cronVars, schedVars, procVars, batchSize, allFiles, i, successCount, skipCount, errorCount,
                 tempDirExists, tempFiles, s3, metrics, notified>>

\* await Promise.all(promises) resumes once every transfer of the batch has
\* resolved; i += batchSize
BatchSettled ==
  /\ pc = "await"
  /\ \A f \in batch : transfers[f].pc = "resolved"
  /\ i' = JsAdd(i, batchSize)
  /\ pc' = "loop"
  /\ UNCHANGED <<listVars, cronVars, schedVars, procVars, batchSize, allFiles, batch, batchNo, transfers, successCount,
                 skipCount, errorCount, tempDirExists, tempFiles, s3, metrics,
                 notified>>

\* the loop condition fails: on to cleanupTempDir
LoopExit ==
  /\ pc = "loop"
  /\ ~LoopCondition(i, N)
  /\ pc' = "cleanupTempDir"
  /\ UNCHANGED <<listVars, cronVars, schedVars, procVars, batchSize, allFiles, i, batch, batchNo, transfers,
                 successCount, skipCount, errorCount, tempDirExists, tempFiles,
                 s3, metrics, notified>>

\* the BackupMetrics literal of backup()
BuildMetrics ==
  [totalFiles   |-> N,
   successCount |-> successCount,
   skipCount    |-> skipCount,
   errorCount   |-> errorCount]

\* cleanupTempDir (a failing rm is only warned about), then the summary and
\* the metrics
CleanupTempDir ==
  /\ pc = "cleanupTempDir"
  /\ \/ /\ tempDirExists' = FALSE
        /\ tempFiles' = {}
        /\ cleanup' = "removed"
     \/ /\ UNCHANGED <<tempDirExists, tempFiles>>
        /\ cleanup' = "rejected"
  /\ metrics' = BuildMetrics
  /\ pc' = "sendBackupNotification"
  /\ UNCHANGED <<listVars, cronVars, schedVars, slackWebhookUrl, exitCode,
                 delivery, previous, batchSize, allFiles, i, batch, batchNo, transfers,
                 successCount, skipCount, errorCount, s3, notified>>

\* await this.slack.sendBackupNotification(metrics): it returns at once
\* without a webhook URL, and a failed delivery is caught and logged; it
\* never throws
SendBackupNotification ==
  /\ pc = "sendBackupNotification"
  /\ notified' = notified + 1
  /\ delivery' \in IF slackWebhookUrl THEN {"sent", "failed"}
                  ELSE {"unconfigured"}
  /\ pc' = "done"
  /\ UNCHANGED <<listVars, cronVars, schedVars, slackWebhookUrl, exitCode,
                 cleanup, previous, batchSize, allFiles, i, batch, batchNo, transfers,
                 successCount, skipCount, errorCount, tempDirExists, tempFiles,
                 s3, metrics>>

(***************************************************************************)
(* One transfer: the callback of batch.map and backupFile                  *)
(***************************************************************************)
\* the callback of batch.map: a return counts as success, a thrown error whose
\* message includes "already exists" as skip, any other as error
Outcome(result) ==
  IF result = "returned" THEN "success"
  ELSE IF IncludesAlreadyExists(result) THEN "skip"
  ELSE "error"

\* backupFile of object f, in state rec, returns (result = "returned") or
\* throws result: the callback counts it and resolves
Settle(f, result, rec) ==
  /\ transfers' = [transfers EXCEPT
                     ![f] = [rec EXCEPT !.pc = "resolved", !.err = "",
                                        !.outcome = Outcome(result)]]
  /\ successCount' = successCount + (IF Outcome(result) = "success" THEN 1 ELSE 0)
  /\ skipCount' = skipCount + (IF Outcome(result) = "skip" THEN 1 ELSE 0)
  /\ errorCount' = errorCount + (IF Outcome(result) = "error" THEN 1 ELSE 0)

\* backupFile moves on without resolving
Continue(f, rec) ==
  /\ transfers' = [transfers EXCEPT ![f] = rec]
  /\ UNCHANGED <<successCount, skipCount, errorCount>>

\* a probe that answers true when the request fails
FileExistsAnswerTrueOnError(resp, dest, filePath) ==
  IF resp = "ok" THEN FileExists(dest, filePath) ELSE TRUE

\* S3Uploader.fileExists: the answer to resp, the outcome of the
\* ListObjectsV2 request raced against the 15 s timer; an error and the
\* timeout are both caught and answered false
FileExistsAnswer(resp, dest, filePath) ==
  IF resp = "ok" THEN FileExists(dest, filePath) ELSE FALSE

\* a backupFile that copies whatever the probe answers
AfterProbeNoSkip(exists, file) ==
  IF file.size # 0 /\ file.size < BufferLimit THEN "downloadFile"
  ELSE "stagedDownloadFile"

\* backupFile after the probe: throw "File already exists", or the first
\* strategy: the buffered one when file.size && file.size < 100 MiB
AfterProbe(exists, file) ==
  IF exists THEN "throw"
  ELSE IF file.size # 0 /\ file.size < BufferLimit THEN "downloadFile"
  ELSE "stagedDownloadFile"

\* a buffered strategy whose catch rethrows
AfterBufferFailureRethrow == "throw"

\* backupFile after a failure of the buffered strategy: the catch logs and
\* falls through to the staged strategy
AfterBufferFailure == "stagedDownloadFile"

\* the record of a transfer entering the staged strategy: downloadFile is
\* called
EnterStaged(rec) ==
  [rec EXCEPT !.pc = "stagedDownloadFile", !.staged = "entered",
              !.reads = @ + 1,
              !.buffered = IF @ = "entered" THEN "failed" ELSE @]

\* the record of a transfer entering the buffered strategy
EnterBuffered(rec) ==
  [rec EXCEPT !.pc = "downloadFile", !.buffered = "entered", !.reads = @ + 1]

InFlight(f) == f \in DOMAIN transfers /\ transfers[f].pc \notin {"none", "resolved"}

\* a probe without a timer: a request that never answers is awaited for ever
\* ("hang")
ProbeOutcomesNoTimer == {"ok", "error", "hang"}

\* what ends the await of fileExists: the ListObjectsV2 request answers
\* ("ok"), it fails ("error"), or it has not answered when the 15 s timer it
\* is raced against fires ("timeout")
ProbeOutcomes == {"ok", "error", "timeout"}

\* const exists = await this.s3.fileExists(file.path) resumes
FileExistsDone(f) ==
  /\ pc = "await"
  /\ InFlight(f)
  /\ transfers[f].pc = "fileExists"
  /\ \E resp \in ProbeOutcomes :
       LET exists == FileExistsAnswer(resp, s3, allFiles[f].path)
           rec == [transfers[f] EXCEPT
                     !.probe = IF resp # "ok" THEN "failed"
                               ELSE IF exists THEN "true" ELSE "false"]
           next == IF resp = "hang" THEN "hung"
                   ELSE AfterProbe(exists, allFiles[f])
       IN IF next = "hung" THEN Continue(f, [transfers[f] EXCEPT !.pc = "hung"])
          ELSE IF next = "throw" THEN Settle(f, "File already exists", rec)
          ELSE IF next = "downloadFile" THEN Continue(f, EnterBuffered(rec))
          ELSE Continue(f, EnterStaged(rec))
  /\ UNCHANGED <<listVars, cronVars, schedVars, procVars, batchSize, pc, allFiles, i, batch, batchNo, tempDirExists,
                 tempFiles, s3, metrics, notified>>

\* buffered strategy: await this.supabase.downloadFile(file.path) resumes
BufferDownloadDone(f) ==
  /\ pc = "await"
  /\ InFlight(f)
  /\ transfers[f].pc = "downloadFile"
  /\ \/ Continue(f, [transfers[f] EXCEPT !.pc = "uploadBuffer", !.writes = @ + 1])
     \/ /\ AfterBufferFailure = "stagedDownloadFile"
        /\ Continue(f, EnterStaged(transfers[f]))
     \/ /\ AfterBufferFailure = "throw"
        /\ \E e \in {ErrTimeout, ErrOther, ErrAlreadyExists} :
             Settle(f, e, [transfers[f] EXCEPT !.buffered = "failed"])
  /\ UNCHANGED <<listVars, cronVars, schedVars, procVars, batchSize, pc, allFiles, i, batch, batchNo, tempDirExists,
                 tempFiles, s3, metrics, notified>>

\* buffered strategy: await this.s3.uploadBuffer(...) resumes
BufferUploadDone(f) ==
  /\ pc = "await"
  /\ InFlight(f)
  /\ transfers[f].pc = "uploadBuffer"
  /\ \/ /\ s3' = PutObject(s3, GenerateS3Key(s3Prefix, allFiles[f].path),
                           allFiles[f].path)
        /\ Settle(f, "returned", [transfers[f] EXCEPT !.buffered = "ok"])
     \/ /\ AfterBufferFailure = "stagedDownloadFile"
        /\ Continue(f, EnterStaged(transfers[f]))
        /\ UNCHANGED s3
     \/ /\ AfterBufferFailure = "throw"
        /\ \E e \in {ErrOther, ErrAlreadyExists} :
             Settle(f, e, [transfers[f] EXCEPT !.buffered = "failed"])
        /\ UNCHANGED s3
  /\ UNCHANGED <<listVars, cronVars, schedVars, procVars, batchSize, pc, allFiles, i, batch, batchNo, tempDirExists,
                 tempFiles, metrics, notified>>

\* the staged strategy leaves its try block with error e: the catch calls rm
ToCatch(f, e) ==
  Continue(f, [transfers[f] EXCEPT !.pc = "catchRm", !.err = e,
                                   !.staged = "failed"])

\* staged strategy: await this.supabase.downloadFile(file.path) resumes
StagedDownloadDone(f) ==
  /\ pc = "await"
  /\ InFlight(f)
  /\ transfers[f].pc = "stagedDownloadFile"
  /\ \/ Continue(f, [transfers[f] EXCEPT !.pc = "writeFile"])
     \/ \E e \in {ErrTimeout, ErrOther, ErrAlreadyExists} : ToCatch(f, e)
  /\ UNCHANGED <<listVars, cronVars, schedVars, procVars, batchSize, pc, allFiles, i, batch, batchNo, tempDirExists,
                 tempFiles, s3, metrics, notified>>

\* staged strategy: await writeFile(tempFilePath, buffer) resumes; it can
\* only succeed while the staging directory exists
WriteFileDone(f) ==
  /\ pc = "await"
  /\ InFlight(f)
  /\ transfers[f].pc = "writeFile"
  /\ \/ /\ tempDirExists
        /\ tempFiles' = WriteTemp(tempFiles, TempFileName(allFiles[f].path),
                                  allFiles[f].path)
        /\ Continue(f, [transfers[f] EXCEPT !.pc = "uploadFile", !.writes = @ + 1])
     \/ /\ \E e \in {ErrOther, ErrAlreadyExists} : ToCatch(f, e)
        /\ UNCHANGED tempFiles
  /\ UNCHANGED <<listVars, cronVars, schedVars, procVars, batchSize, pc, allFiles, i, batch, batchNo, tempDirExists,
                 s3, metrics, notified>>

\* staged strategy: await this.s3.uploadFile(tempFilePath, ...) resumes; it
\* stats and streams the staged file, so it can only succeed while that file
\* exists, and it uploads the bytes the file holds
UploadFileDone(f) ==
  /\ pc = "await"
  /\ InFlight(f)
  /\ transfers[f].pc = "uploadFile"
  /\ \/ \E t \in tempFiles :
          /\ t.name = TempFileName(allFiles[f].path)
          /\ s3' = PutObject(s3, GenerateS3Key(s3Prefix, allFiles[f].path),
                             t.content)
          /\ Continue(f, [transfers[f] EXCEPT !.pc = "rm"])
     \/ /\ \E e \in {ErrOther, ErrAlreadyExists} : ToCatch(f, e)
        /\ UNCHANGED s3
  /\ UNCHANGED <<listVars, cronVars, schedVars, procVars, batchSize, pc, allFiles, i, batch, batchNo, tempDirExists,
                 tempFiles, metrics, notified>>

\* staged strategy: await rm(tempFilePath, { force: true }) in the try block
\* resumes; when it rejects, the catch block runs
RmDone(f) ==
  /\ pc = "await"
  /\ InFlight(f)
  /\ transfers[f].pc = "rm"
  /\ \/ /\ tempFiles' = RmTemp(tempFiles, TempFileName(allFiles[f].path))
        /\ Settle(f, "returned", [transfers[f] EXCEPT !.staged = "ok"])
     \/ /\ \E e \in {ErrOther, ErrAlreadyExists} : ToCatch(f, e)
        /\ UNCHANGED tempFiles
  /\ UNCHANGED <<listVars, cronVars, schedVars, procVars, batchSize, pc, allFiles, i, batch, batchNo, tempDirExists,
                 s3, metrics, notified>>

\* a catch block that does not remove the staged file
CatchRmMissing(fs, name) == fs

\* the rm of the catch block, when it is not rejected
CatchRm(fs, name) == RmTemp(fs, name)

\* staged strategy: await rm(tempFilePath, { force: true }).catch(() => {}) in
\* the catch block resumes, a rejection being swallowed (a rejection changes
\* the outcome only when there is a file to keep); throw error
CatchRmDone(f) ==
  /\ pc = "await"
  /\ InFlight(f)
  /\ transfers[f].pc = "catchRm"
  /\ \/ /\ tempFiles' = CatchRm(tempFiles, TempFileName(allFiles[f].path))
        /\ Settle(f, transfers[f].err, transfers[f])
     \/ /\ TempExists(tempFiles, TempFileName(allFiles[f].path))
        /\ UNCHANGED tempFiles
        /\ Settle(f, transfers[f].err, [transfers[f] EXCEPT !.rmKept = TRUE])
  /\ UNCHANGED <<listVars, cronVars, schedVars, procVars, batchSize, pc, allFiles, i, batch, batchNo, tempDirExists,
                 s3, metrics, notified>>

Transfer(f) ==
  \/ FileExistsDone(f)
  \/ BufferDownloadDone(f)
  \/ BufferUploadDone(f)
  \/ StagedDownloadDone(f)
  \/ WriteFileDone(f)
  \/ UploadFileDone(f)
  \/ RmDone(f)
  \/ CatchRmDone(f)

Next ==
  \/ EnsureTempDir
  \/ ListAllFiles
  \/ StartBatch
  \/ BatchSettled
  \/ LoopExit
  \/ CleanupTempDir
  \/ SendBackupNotification
  \/ \E f \in 1..MaxFiles : Transfer(f)

Spec == Init /\ [][Next]_vars

(***************************************************************************)
(* The process in one-time mode: main, loadConfig, the run, process.exit   *)
(***************************************************************************)
\* the process starts in main, with a batch size of 1, an empty
\* destination, and with or without a Slack webhook
InitOnce ==
  /\ ListIdle
  /\ CronIdle
  /\ SchedIdle
  /\ slackWebhookUrl \in BOOLEAN
  /\ exitCode = "none"
  /\ cleanup = "none"
  /\ delivery = "none"
  /\ previous = <<>>
  /\ batchSize = LoadBatchSize(<<"1">>)
  /\ pc = "main"
  /\ allFiles = <<>>
  /\ i = Num(0)
  /\ batch = {}
  /\ batchNo = 0
  /\ transfers = <<>>
  /\ successCount = 0
  /\ skipCount = 0
  /\ errorCount = 0
  /\ tempDirExists \in BOOLEAN
  /\ tempFiles = {}
  /\ s3 = {}
  /\ metrics = <<>>
  /\ notified = 0

NextOnce == LoadConfig \/ MainExit \/ Next

SpecOnce == InitOnce /\ [][NextOnce]_vars

(***************************************************************************)
(* SupabaseStorage.listAllFiles, step by step                              *)
(***************************************************************************)
\* names of folders and files
Names == {<<"a">>, <<"b">>}

\* const fullPath = currentPath ? `${currentPath}/${item.name}` : item.name
FullPath(currentPath, name) ==
  IF currentPath # <<>> THEN currentPath \o <<"/">> \o name ELSE name

\* the paths of the trees that are scanned: one or two segments, or three
\* segments that end in a
TreePaths ==
  LET one == Names
      two == {FullPath(q, n) : q \in one, n \in Names}
      three == {FullPath(q, <<"a">>) : q \in two}
  IN one \cup two \cup three

\* the source buckets: at most MaxObjects objects, each of 0 or 1 byte
Buckets ==
  UNION {{{[path |-> q, size |-> sz[q]] : q \in P} : sz \in [P -> {0, 1}]} :
           P \in {Q \in SUBSET TreePaths : Cardinality(Q) <= MaxObjects}}

\* the metadata of a listed entry: null (a folder), or an object with a size
MetaNull == [kind |-> "null", size |-> 0]

MetaSize(n) == [kind |-> "size", size |-> n]

\* .list(currentPath, { limit: 10000, offset: 0 })
ListLimit == 10000

HasSlash(str) == \E j \in 1..Len(str) : str[j] = "/"

\* the part of str before its first "/"
FirstSegment(str) ==
  SubSeq(str, 1, (CHOOSE j \in 1..Len(str) :
                    str[j] = "/" /\ \A k \in 1..(j - 1) : str[k] # "/") - 1)

\* the storage service: the entries directly under path, a file entry for
\* an object stored there and a folder entry (null metadata) for every first
\* segment of an object stored deeper
Entries(objects, path) ==
  LET prefix == IF path = <<>> THEN <<>> ELSE path \o <<"/">>
      under == {o \in objects :
                  IsPrefix(prefix, o.path) /\ Len(o.path) > Len(prefix)}
      rest(o) == SubSeq(o.path, Len(prefix) + 1, Len(o.path))
  IN {IF HasSlash(rest(o))
      THEN [name |-> FirstSegment(rest(o)), metadata |-> MetaNull]
      ELSE [name |-> rest(o), metadata |-> MetaSize(o.size)] : o \in under}

\* the sequences that enumerate a set
Orderings(S) ==
  {q \in [1..Cardinality(S) -> S] : \A x, y \in DOMAIN q : x # y => q[x] # q[y]}

\* the data a successful list() call can return: the entries in any order,
\* cut at the limit
ListResponses(objects, path) ==
  {SubSeq(q, 1, IF Len(q) < ListLimit THEN Len(q) ELSE ListLimit) :
     q \in Orderings(Entries(objects, path))}

\* a classification that takes any entry with metadata for a file
IsFolderByMetadataOnly(item) == item.metadata.kind = "null"

\* const isFolder = !item.metadata || Object.keys(item.metadata).length === 0
\*                  || !item.metadata.size
IsFolder(item) ==
  \/ item.metadata.kind = "null"
  \/ item.metadata.kind = "empty"
  \/ item.metadata.kind # "size" \/ item.metadata.size = 0

\* the for loop over data: folders are pushed on the queue, files appended to
\* the result; acc = [files, folders]
RECURSIVE ProcessItems(_, _, _)
ProcessItems(currentPath, data, acc) ==
  IF data = <<>> THEN acc
  ELSE LET item == Head(data)
           fullPath == FullPath(currentPath, item.name)
       IN ProcessItems(currentPath, Tail(data),
            IF IsFolder(item)
            THEN [acc EXCEPT !.folders = Append(@, fullPath)]
            ELSE [acc EXCEPT !.files =
                    Append(@, [path |-> fullPath, size |-> item.metadata.size])])

\* a scan that gives up at the first listing failure
AfterListFailureAbort == "throw"

\* listAllFiles after a failed listing: the error branch and the catch block
\* both go on with the next path of the queue
AfterListFailure == "continue"

\* a scan that keeps no record of the paths it has listed
ProcessedFoldersHasNone(processed, path) == FALSE

\* processedFolders.has(currentPath)
ProcessedFoldersHas(processed, path) == path \in processed

\* while (foldersToProcess.length > 0) with a path that was already listed
ListSkipProcessed ==
  /\ pc = "scan"
  /\ foldersToProcess # <<>>
  /\ ProcessedFoldersHas(processedFolders, Head(foldersToProcess))
  /\ foldersToProcess' = Tail(foldersToProcess)
  /\ UNCHANGED <<pc, allFiles, runVars, cronVars, procVars, schedVars, bucket,
                 processedFolders, listFailed, listCalls>>

\* one iteration of the while loop: list the path at the head of the queue;
\* the request fails (an error result or an exception) or returns data
ListPath ==
  /\ pc = "scan"
  /\ foldersToProcess # <<>>
  /\ ~ProcessedFoldersHas(processedFolders, Head(foldersToProcess))
  /\ LET currentPath == Head(foldersToProcess) IN
       /\ processedFolders' = processedFolders \cup {currentPath}
       /\ listCalls' = Append(listCalls, currentPath)
       /\ \/ /\ listFailed' = listFailed \cup {currentPath}
             /\ \E how \in {"error", "exception"} :
                  IF AfterListFailure = "continue"
                  THEN /\ foldersToProcess' = Tail(foldersToProcess)
                       /\ pc' = "scan"
                  ELSE /\ foldersToProcess' = foldersToProcess
                       /\ pc' = "threw"
             /\ UNCHANGED allFiles
          \/ /\ \E data \in ListResponses(bucket, currentPath) :
                  LET acc == ProcessItems(currentPath, data,
                               [files |-> allFiles,
                                folders |-> Tail(foldersToProcess)])
                  IN /\ allFiles' = acc.files
                     /\ foldersToProcess' = acc.folders
             /\ pc' = "scan"
             /\ UNCHANGED listFailed
  /\ UNCHANGED <<runVars, cronVars, procVars, schedVars, bucket>>

\* the queue is empty: return allFiles
ListReturn ==
  /\ pc = "scan"
  /\ foldersToProcess = <<>>
  /\ pc' = "listed"
  /\ UNCHANGED <<allFiles, runVars, listVars, cronVars, procVars, schedVars>>

\* no run is modelled
RunIdle ==
  /\ batchSize = LoadBatchSize(<<>>)
  /\ i = Num(0)
  /\ batch = {}
  /\ batchNo = 0
  /\ transfers = <<>>
  /\ successCount = 0
  /\ skipCount = 0
  /\ errorCount = 0
  /\ tempDirExists = TRUE
  /\ tempFiles = {}
  /\ s3 = {}
  /\ metrics = <<>>
  /\ notified = 0

\* const allFiles = [], foldersToProcess = [""], processedFolders = new Set()
InitList ==
  /\ RunIdle
  /\ CronIdle
  /\ SchedIdle
  /\ ProcIdle
  /\ pc = "scan"
  /\ allFiles = <<>>
  /\ bucket \in Buckets
  /\ foldersToProcess = << <<>> >>
  /\ processedFolders = {}
  /\ listFailed = {}
  /\ listCalls = <<>>

NextList == ListSkipProcessed \/ ListPath \/ ListReturn

SpecList == InitList /\ [][NextList]_vars

(***************************************************************************)
(* BackupScheduler.shouldRunBackup / matchCronField (scheduler.ts)         *)
(***************************************************************************)
\* String.prototype.includes for a one-character needle
Includes(str, ch) == \E j \in 1..Len(str) : str[j] = ch

\* String.prototype.split for a one-character separator
RECURSIVE Split(_, _)
Split(str, ch) ==
  IF ~Includes(str, ch) THEN <<str>>
  ELSE LET j == CHOOSE x \in 1..Len(str) :
                  str[x] = ch /\ \A y \in 1..(x - 1) : str[y] # ch
       IN <<SubSeq(str, 1, j - 1)>> \o Split(SubSeq(str, j + 1, Len(str)), ch)

\* Array.prototype.join for a one-character separator
RECURSIVE Join(_, _)
Join(parts, ch) ==
  IF parts = <<>> THEN <<>>
  ELSE IF Len(parts) = 1 THEN parts[1]
  ELSE parts[1] \o <<ch>> \o Join(Tail(parts), ch)

\* a step that matches the value equal to it
JsEqualsStep(a, b) == ~b.nan /\ a = b.v

\* a % b === 0 for an integer a >= 0: a % NaN and a % 0 are NaN
JsRemainderIsZero(a, b) ==
  ~b.nan /\ b.v # 0 /\ a % (IF b.v < 0 THEN 0 - b.v ELSE b.v) = 0

\* a >= b and a <= b for an integer a: false when b is NaN
JsGe(a, b) == ~b.nan /\ a >= b.v

JsLe(a, b) == ~b.nan /\ a <= b.v

\* the fields of the schedules that are checked: any, a step, a range, a
\* list, a single value, and the empty field two adjacent spaces make
CronFields ==
  {<<"*">>, <<"*", "/", "2">>, <<"1", "-", "2">>, <<"0", ",", "2">>, <<"1">>,
   <<>>}

\* values of the BACKUP_CRON environment variable; <<>> is unset or empty:
\* every expression of five of the fields, and expressions of four and of
\* six fields
CronEnv ==
  {<<>>}
    \cup {Join(fs, " ") : fs \in [1..5 -> CronFields]}
    \cup {Join(fs, " ") : fs \in [1..4 -> {<<"*">>, <<"1">>}]}
    \cup {Join(fs, " ") : fs \in [1..6 -> {<<"*">>, <<"1">>}]}

\* loadConfig: process.env.BACKUP_CRON || "0 2 * * *"
LoadCronSchedule(env) ==
  IF env = <<>> THEN <<"0", " ", "2", " ", "*", " ", "*", " ", "*">> ELSE env

\* the local times at which the schedule is checked
Times ==
  [minutes : {0, 1, 2}, hours : {0, 1}, date : {1, 2}, month : {1, 2, 12},
   day : {0, 1}]

\* Date.prototype.getMonth: January is 0
GetMonth(date) == date.month - 1

\* a month taken as getMonth() returns it
CurrentMonthZeroBased(date) == GetMonth(date)

\* const currentMonth = now.getMonth() + 1
CurrentMonth(date) == GetMonth(date) + 1

\* a matchCronField that applies the step test to every field with a "/"
MatchCronFieldStepAnyRange(cronField, currentValue, min, max) ==
  IF cronField = <<"*">> THEN TRUE
  ELSE IF Includes(cronField, "/")
       THEN JsRemainderIsZero(currentValue,
                              ParseInt(Split(cronField, "/")[2]))
  ELSE IF Includes(cronField, "-")
       THEN LET start == ParseInt(Split(cronField, "-")[1])
                end == ParseInt(Split(cronField, "-")[2])
            IN JsGe(currentValue, start) /\ JsLe(currentValue, end)
  ELSE IF Includes(cronField, ",")
       THEN LET values == Split(cronField, ",")
            IN \E j \in 1..Len(values) : ParseInt(values[j]) = Num(currentValue)
  ELSE ParseInt(cronField) = Num(currentValue)

\* matchCronField(cronField, currentValue, min, max)
MatchCronField(cronField, currentValue, min, max) ==
  IF cronField = <<"*">> THEN TRUE
  ELSE IF /\ Includes(cronField, "/")
          /\ Split(cronField, "/")[1] = <<"*">>
       THEN JsRemainderIsZero(currentValue,
                              ParseInt(Split(cronField, "/")[2]))
  ELSE IF Includes(cronField, "-")
       THEN LET start == ParseInt(Split(cronField, "-")[1])
                end == ParseInt(Split(cronField, "-")[2])
            IN JsGe(currentValue, start) /\ JsLe(currentValue, end)
  ELSE IF Includes(cronField, ",")
       THEN LET values == Split(cronField, ",")
            IN \E j \in 1..Len(values) : ParseInt(values[j]) = Num(currentValue)
  ELSE ParseInt(cronField) = Num(currentValue)

\* shouldRunBackup with config.cronSchedule = schedule and new Date() = date
ShouldRunBackup(schedule, date) ==
  LET parts == Split(schedule, " ") IN
    IF Len(parts) # 5 THEN FALSE
    ELSE /\ MatchCronField(parts[1], date.minutes, 0, 59)
         /\ MatchCronField(parts[2], date.hours, 0, 23)
         /\ MatchCronField(parts[3], date.date, 1, 31)
         /\ MatchCronField(parts[4], CurrentMonth(date), 1, 12)
         /\ MatchCronField(parts[5], date.day, 0, 6)

\* the setInterval callback evaluates shouldRunBackup at the time now
ShouldRunBackupCall ==
  /\ shouldRun = "none"
  /\ shouldRun' =
       IF ShouldRunBackup(cronSchedule, now) THEN "true" ELSE "false"
  /\ UNCHANGED <<pc, allFiles, runVars, listVars, procVars, schedVars,
                 cronSchedule, now>>

\* no enumeration is modelled
ListDone ==
  /\ pc = "idle"
  /\ allFiles = <<>>
  /\ ListIdle

InitCron ==
  /\ RunIdle
  /\ ListDone
  /\ SchedIdle
  /\ ProcIdle
  /\ cronSchedule \in {LoadCronSchedule(e) : e \in CronEnv}
  /\ now \in Times
  /\ shouldRun = "none"

NextCron == ShouldRunBackupCall

SpecCron == InitCron /\ [][NextCron]_vars

(***************************************************************************)
(* The cron check on schedules with one step field                        *)
(***************************************************************************)
\* the decimal numeral of a number below 100
Decimal(n) ==
  LET digit(d) == CHOOSE c \in Digits : DigitVal(c) = d
  IN IF n < 10 THEN <<digit(n)>> ELSE <<digit(n \div 10), digit(n % 10)>>

\* the steps of the step fields
Steps == {1, 2, 3, 15}

\* the five-field expression whose k-th field is field, the others being "*"
OneFieldSchedule(k, field) ==
  Join([j \in 1..5 |-> IF j = k THEN field ELSE <<"*">>], " ")

\* values of BACKUP_CRON with one step field: a step of Steps, of 0, or one
\* that is no number
StepSchedules ==
  {OneFieldSchedule(k, <<"*", "/">> \o step) :
     k \in 1..5,
     step \in {Decimal(b) : b \in Steps} \cup {<<"0">>, <<"x">>}}

\* the local times of the checks: every value of each calendar component
StepTimes ==
  LET base == [minutes |-> 0, hours |-> 0, date |-> 1, month |-> 1, day |-> 0]
  IN {[base EXCEPT !.minutes = m] : m \in 0..59}
       \cup {[base EXCEPT !.hours = h, !.minutes = 45] : h \in 0..23}
       \cup {[base EXCEPT !.date = d] : d \in 1..31}
       \cup {[base EXCEPT !.month = m] : m \in 1..12}
       \cup {[base EXCEPT !.day = d] : d \in 0..6}

InitStep ==
  /\ RunIdle
  /\ ListDone
  /\ SchedIdle
  /\ ProcIdle
  /\ cronSchedule \in {LoadCronSchedule(e) : e \in StepSchedules}
  /\ now \in StepTimes
  /\ shouldRun = "none"

SpecStep == InitStep /\ [][NextCron]_vars

(***************************************************************************)
(* The cron check on schedules with one field of each syntax               *)
(***************************************************************************)
\* fields of every syntax, and fields that mix two: a number before "/", a
\* "/" inside a range or a list, a range with a list, a step with a range
RuleFields ==
  {<<"*">>,
   <<"*", "/", "2">>,
   <<"1", "-", "3">>,
   <<"0", ",", "2">>,
   <<"5">>,
   <<"2", "/", "3">>,
   <<"0", "/", "2">>,
   <<"1", "-", "3", "/", "2">>,
   <<"0", ",", "4", "/", "2">>,
   <<"1", "-", "2", ",", "5">>,
   <<"*", "/", "3", "-", "5">>,
   <<"*", "/", "4", ",", "5">>}

\* values of BACKUP_CRON with one field of RuleFields, the others being "*"
RuleSchedules == {OneFieldSchedule(k, field) : k \in 1..5, field \in RuleFields}

InitRule ==
  /\ RunIdle
  /\ ListDone
  /\ SchedIdle
  /\ ProcIdle
  /\ cronSchedule \in {LoadCronSchedule(e) : e \in RuleSchedules}
  /\ now \in StepTimes
  /\ shouldRun = "none"

SpecRule == InitRule /\ [][NextCron]_vars

(***************************************************************************)
(* One call of backupFile, on a StorageFile of any size                    *)
(***************************************************************************)
\* the sizes a StorageFile can carry: 0 (size: item.metadata?.size || 0 of
\* an entry without a size), and sizes around the limit of the buffered
\* strategy
UnitSizes == {0, 1, BufferLimit - 1, BufferLimit, BufferLimit + 1}

\* backupFile(file) has been called by a batch of its own and is suspended
\* in its first await, fileExists
InitUnit ==
  /\ ListIdle
  /\ CronIdle
  /\ SchedIdle
  /\ ProcIdle
  /\ batchSize = LoadBatchSize(<<"1">>)
  /\ pc = "await"
  /\ \E size \in UnitSizes : allFiles = <<[path |-> <<"a">>, size |-> size]>>
  /\ i = Num(0)
  /\ batch = {1}
  /\ batchNo = 1
  /\ transfers = <<[NewTransfer EXCEPT !.pc = "fileExists", !.probes = 1,
                                       !.startedIn = 1]>>
  /\ successCount = 0
  /\ skipCount = 0
  /\ errorCount = 0
  /\ tempDirExists \in BOOLEAN
  /\ tempFiles = {}
  /\ s3 \in InitialS3
  /\ metrics = <<>>
  /\ notified = 0

NextUnit == \E f \in {1} : Transfer(f)

SpecUnit == InitUnit /\ [][NextUnit]_vars

(***************************************************************************)
(* A run whose pending requests and timers are eventually served           *)
(***************************************************************************)
\* a run with a batch size of 2, an empty destination and an existing
\* staging directory
InitLive ==
  /\ ListIdle
  /\ CronIdle
  /\ SchedIdle
  /\ ProcIdle
  /\ batchSize = LoadBatchSize(<<"2">>)
  /\ pc = "idle"
  /\ allFiles = <<>>
  /\ i = Num(0)
  /\ batch = {}
  /\ batchNo = 0
  /\ transfers = <<>>
  /\ successCount = 0
  /\ skipCount = 0
  /\ errorCount = 0
  /\ tempDirExists = TRUE
  /\ tempFiles = {}
  /\ s3 = {}
  /\ metrics = <<>>
  /\ notified = 0

\* every await of a transfer is ended by an answer, a failure or a timer
\* (destination writes and file system calls resolve), and Promise.all
\* resumes once its promises have resolved
Fairness ==
  /\ \A f \in 1..MaxFiles : WF_vars(Transfer(f))
  /\ WF_vars(BatchSettled)

SpecLive == InitLive /\ [][Next]_vars /\ Fairness

(***************************************************************************)
(* Two consecutive runs over the same source                               *)
(***************************************************************************)
\* backup() is called again after a first run has ended: its locals are
\* fresh, the StorageBackup holds no result of the first run; the
\* destination and the file system are what the first run left
SecondRun ==
  /\ pc \in {"done", "returned", "threw"}
  /\ previous = <<>>
  /\ previous' = [files |-> allFiles,
                  outcomes |-> [f \in DOMAIN transfers |-> transfers[f].outcome],
                  dest |-> s3]
  /\ pc' = "idle"
  /\ allFiles' = <<>>
  /\ i' = Num(0)
  /\ batch' = {}
  /\ batchNo' = 0
  /\ transfers' = <<>>
  /\ successCount' = 0
  /\ skipCount' = 0
  /\ errorCount' = 0
  /\ metrics' = <<>>
  /\ notified' = 0
  /\ cleanup' = "none"
  /\ delivery' = "none"
  /\ UNCHANGED <<listVars, cronVars, schedVars, slackWebhookUrl, exitCode,
                 batchSize, tempDirExists, tempFiles, s3>>

\* a first run with a batch size of 1, an empty destination and an existing
\* staging directory
InitTwo ==
  /\ ListIdle
  /\ CronIdle
  /\ SchedIdle
  /\ ProcIdle
  /\ batchSize = LoadBatchSize(<<"1">>)
  /\ pc = "idle"
  /\ allFiles = <<>>
  /\ i = Num(0)
  /\ batch = {}
  /\ batchNo = 0
  /\ transfers = <<>>
  /\ successCount = 0
  /\ skipCount = 0
  /\ errorCount = 0
  /\ tempDirExists = TRUE
  /\ tempFiles = {}
  /\ s3 = {}
  /\ metrics = <<>>
  /\ notified = 0

NextTwo == SecondRun \/ Next

SpecTwo == InitTwo /\ [][NextTwo]_vars

(***************************************************************************)
(* The process in scheduler mode: BackupScheduler.start, the interval      *)
(* timer, the signal handlers.  A run is followed from one await of        *)
(* backup() to the next; its batches are not looked into.                  *)
(***************************************************************************)
\* a call of backup() up to its first await; by is "start" for the initial
\* run and "tick" for one the timer callback started
NewRun(by) ==
  [pc |-> "ensureTempDir", batches |-> 0, by |-> by, afterSignal |-> signalled]

\* a runBackup without a catch: a run that throws never lets its caller go on
RunEndedUncaught(run) == run.pc \in {"done", "returned"}

\* backup() has returned or thrown (runBackup catches what it throws)
RunEnded(run) == run.pc \in {"done", "returned", "threw"}

\* the positions backup() can resume at after the await it is suspended in
RunSuccessors(run) ==
  CASE run.pc = "ensureTempDir" ->
         {[run EXCEPT !.pc = "listAllFiles"], [run EXCEPT !.pc = "threw"]}
    [] run.pc = "listAllFiles" ->
         {[run EXCEPT !.pc = "returned"]}
           \cup {[run EXCEPT !.pc = "batch", !.batches = n] : n \in {1, 2}}
    [] run.pc = "batch" ->
         {IF run.batches > 1 THEN [run EXCEPT !.batches = @ - 1]
          ELSE [run EXCEPT !.pc = "cleanupTempDir", !.batches = 0]}
    [] run.pc = "cleanupTempDir" -> {[run EXCEPT !.pc = "sendBackupNotification"]}
    [] run.pc = "sendBackupNotification" -> {[run EXCEPT !.pc = "done"]}
    [] OTHER -> {}

\* a run of a live process resumes from an await
RunStep(r) ==
  /\ exitCode = "none"
  /\ r \in DOMAIN runs
  /\ \E next \in RunSuccessors(runs[r]) : runs' = [runs EXCEPT ![r] = next]
  /\ UNCHANGED <<pc, allFiles, runVars, listVars, cronVars, procVars, schedPc,
                 intervalId, handlers, signalled>>

\* start(): await this.runBackup() resumes; scheduleCronJob sets the interval
\* timer, then the SIGINT and SIGTERM handlers are registered
InitialRunDone ==
  /\ exitCode = "none"
  /\ schedPc = "initialRun"
  /\ RunEnded(runs[1])
  /\ intervalId' = TRUE
  /\ handlers' = TRUE
  /\ schedPc' = "polling"
  /\ UNCHANGED <<pc, allFiles, runVars, listVars, cronVars, procVars, runs,
                 signalled>>

\* the timer callback: if (this.shouldRunBackup()) await this.runBackup();
\* the runs in flight play no part
TickStarts(match, started) == match

\* the local times of the ticks: 02:00 and 02:01
TickTimes ==
  {[minutes |-> m, hours |-> 2, date |-> 1, month |-> 1, day |-> 0] :
     m \in {0, 1}}

\* the interval timer fires (every 60 000 ms while it is set)
Tick ==
  /\ exitCode = "none"
  /\ intervalId
  /\ \E date \in TickTimes :
       LET match == ShouldRunBackup(cronSchedule, date) IN
         /\ now' = date
         /\ shouldRun' = IF match THEN "true" ELSE "false"
         /\ IF TickStarts(match, runs)
            THEN /\ Len(runs) < MaxRuns
                 /\ runs' = Append(runs, NewRun("tick"))
            ELSE UNCHANGED runs
  /\ UNCHANGED <<pc, allFiles, runVars, listVars, procVars, cronSchedule,
                 schedPc, intervalId, handlers, signalled>>

\* stop(): clearInterval when the timer is set
Stop(timer) == FALSE

\* SIGINT or SIGTERM arrives: the registered handler calls stop() and
\* process.exit(0); while no handler is registered the signal ends the process
Signal ==
  /\ exitCode = "none"
  /\ ~signalled
  /\ signalled' = TRUE
  /\ schedPc' = "exited"
  /\ IF handlers
     THEN /\ intervalId' = Stop(intervalId)
          /\ exitCode' = "0"
     ELSE /\ exitCode' = "signal"
          /\ UNCHANGED intervalId
  /\ UNCHANGED <<pc, allFiles, runVars, listVars, cronVars, slackWebhookUrl,
                 cleanup, delivery, previous, runs, handlers>>

\* values of BACKUP_CRON: unset, and every minute
SchedCronEnv == {<<>>, <<"*", " ", "*", " ", "*", " ", "*", " ", "*">>}

\* main has called scheduler.start(), which has called runBackup()
InitSched ==
  /\ RunIdle
  /\ ListDone
  /\ ProcIdle
  /\ cronSchedule \in {LoadCronSchedule(e) : e \in SchedCronEnv}
  /\ now = <<>>
  /\ shouldRun = "none"
  /\ schedPc = "initialRun"
  /\ signalled = FALSE
  /\ runs = <<[pc |-> "ensureTempDir", batches |-> 0, by |-> "start",
               afterSignal |-> FALSE]>>
  /\ intervalId = FALSE
  /\ handlers = FALSE

NextSched ==
  \/ \E r \in 1..MaxRuns : RunStep(r)
  \/ InitialRunDone
  \/ Tick
  \/ Signal

SpecSched == InitSched /\ [][NextSched]_vars

(***************************************************************************)
(* A run of the scheduler while an earlier run of the same process is      *)
(* still in flight (the timer callback does not wait for a run to end).    *)
(* The later run is followed transfer by transfer; the earlier one from    *)
(* one await of backup() to the next, with what it does to the staging     *)
(* directory, which the two runs share (config.tempDir).                   *)
(***************************************************************************)
\* the earlier run resumes from an await: ensureTempDir leaves the directory
\* in place, cleanupTempDir removes it with all it holds unless the rm is
\* rejected
EarlierRunStep ==
  /\ runs # <<>>
  /\ \E next \in RunSuccessors(runs[1]) :
       /\ runs' = [runs EXCEPT ![1] = next]
       /\ IF runs[1].pc = "ensureTempDir" /\ next.pc = "listAllFiles"
          THEN /\ tempDirExists' = TRUE
               /\ UNCHANGED tempFiles
          ELSE IF runs[1].pc = "cleanupTempDir"
          THEN \/ /\ tempDirExists' = FALSE
                  /\ tempFiles' = {}
               \/ UNCHANGED <<tempDirExists, tempFiles>>
          ELSE UNCHANGED <<tempDirExists, tempFiles>>
  /\ UNCHANGED <<pc, allFiles, listVars, cronVars, procVars, schedPc, intervalId,
                 handlers, signalled, batchSize, i, batch, batchNo, transfers,
                 successCount, skipCount, errorCount, s3, metrics, notified>>

\* the timer callback has called runBackup() while the run an earlier tick
\* started is suspended in listAllFiles; batch size 1, empty destination
InitOverlap ==
  /\ ListIdle
  /\ ProcIdle
  /\ cronSchedule = <<"*", " ", "*", " ", "*", " ", "*", " ", "*">>
  /\ now = <<>>
  /\ shouldRun = "none"
  /\ schedPc = "polling"
  /\ signalled = FALSE
  /\ runs = <<[pc |-> "listAllFiles", batches |-> 0, by |-> "tick",
               afterSignal |-> FALSE]>>
  /\ intervalId = TRUE
  /\ handlers = TRUE
  /\ batchSize = LoadBatchSize(<<"1">>)
  /\ pc = "idle"
  /\ allFiles = <<>>
  /\ i = Num(0)
  /\ batch = {}
  /\ batchNo = 0
  /\ transfers = <<>>
  /\ successCount = 0
  /\ skipCount = 0
  /\ errorCount = 0
  /\ tempDirExists = TRUE
  /\ tempFiles = {}
  /\ s3 = {}
  /\ metrics = <<>>
  /\ notified = 0

NextOverlap == EarlierRunStep \/ Next

SpecOverlap == InitOverlap /\ [][NextOverlap]_vars

(***************************************************************************)
(* Properties of a run                                                     *)
(***************************************************************************)
Objects == DOMAIN transfers

Resolved(f) == transfers[f].pc = "resolved"

\* the staged file of object f: the file named after f that holds f's bytes
OwnStagedFile(f) ==
  \E t \in tempFiles :
    t.name = TempFileName(allFiles[f].path) /\ t.content = allFiles[f].path

Count(o) == Cardinality({f \in Objects : transfers[f].outcome = o})

Ceil(a, b) == (a + b - 1) \div b

\* C1: an object whose existence probe answered true is resolved as skipped
\* at once, without any downloadFile, uploadBuffer or uploadFile call for it;
\* and no downloadFile call is issued for an object before its probe has
\* answered.
C1_ExistingIsSkippedUnread ==
  \A f \in Objects :
    /\ transfers[f].probe = "true" =>
         /\ Resolved(f)
         /\ transfers[f].outcome = "skip"
         /\ transfers[f].reads = 0
         /\ transfers[f].writes = 0
    /\ transfers[f].reads > 0 => transfers[f].probe \in {"false", "failed"}

C1_Witness ==
  \E f \in Objects :
    transfers[f].probe = "true" /\ transfers[f].outcome = "skip" /\ pc = "done"

\* C2: every resolved object is counted in exactly the counter of its
\* outcome; whenever the loop is between two batches the three counters sum
\* to the number of objects of the batches finished so far; and in the
\* metrics of the run totalFiles = successCount + skipCount + errorCount.
C2_CountersAddUp ==
  /\ successCount = Count("success")
  /\ skipCount = Count("skip")
  /\ errorCount = Count("error")
  /\ pc = "loop" =>
       successCount + skipCount + errorCount =
         Cardinality({f \in Objects : transfers[f].startedIn > 0})
  /\ metrics # <<>> =>
       metrics.totalFiles =
         metrics.successCount + metrics.skipCount + metrics.errorCount

C4_FailureIsCountedFailed ==
  /\ \A f \in Objects :
       (Resolved(f) /\ transfers[f].staged = "failed") =>
          transfers[f].outcome = "error"
  /\ (\E f \in Objects : transfers[f].staged = "failed") =>
       /\ pc # "threw"
       /\ (pc = "done" => \A g \in Objects : Resolved(g))

C7_ProbeFailureProceedsToCopy ==
  \A f \in Objects :
    transfers[f].probe = "failed" =>
      /\ transfers[f].reads >= 1
      /\ transfers[f].buffered # "none" \/ transfers[f].staged # "none"

C7_Witness ==
  \E f \in Objects :
    transfers[f].probe = "failed" /\ transfers[f].outcome = "success"

(***************************************************************************)
(* Properties of an enumeration (SpecList)                                 *)
(***************************************************************************)
\* the paths of the result of the scan
ResultPaths == {allFiles[j].path : j \in 1..Len(allFiles)}

\* the number of times a path is in the result
Occurrences(q) == Cardinality({j \in 1..Len(allFiles) : allFiles[j].path = q})

\* the folder an object is stored in (<<>> is the root)
FolderOf(q) ==
  IF HasSlash(q)
  THEN SubSeq(q, 1, (CHOOSE j \in 1..Len(q) :
                       q[j] = "/" /\ \A k \in (j + 1)..Len(q) : q[k] # "/") - 1)
  ELSE <<>>

\* the folders on the way from the root to an object, its own folder included
FoldersAbove(q) ==
  {<<>>} \cup {SubSeq(q, 1, j - 1) : j \in {k \in 1..Len(q) : q[k] = "/"}}

\* C8: when the scan of a tree whose listings all succeeded has returned,
\* the result holds exactly the files of the tree, each once and under its
\* full path.
C8_ResultIsTheLeafFiles ==
  (pc = "listed" /\ listFailed = {}) =>
    /\ ResultPaths = {o.path : o \in bucket}
    /\ \A o \in bucket : Occurrences(o.path) = 1

\* C9: a scan never throws, and a failed listing costs only the subtree of
\* the failed path: at any time every file directly under a path that was
\* listed successfully is in the result, once; when the scan has returned
\* the queue is empty, every folder with no failed folder above it has been
\* listed, and every file with no failed folder above it is in the result.
C9_OnlyFailedSubtreeIsMissing ==
  /\ pc # "threw"
  /\ \A o \in bucket :
       (o.size # 0 /\ FolderOf(o.path) \in processedFolders \ listFailed)
         => Occurrences(o.path) = 1
  /\ pc = "listed" =>
       /\ foldersToProcess = <<>>
       /\ \A o \in bucket :
            /\ (FoldersAbove(o.path) \ {FolderOf(o.path)}) \cap listFailed = {}
                 => FolderOf(o.path) \in processedFolders
            /\ (o.size # 0 /\ FoldersAbove(o.path) \cap listFailed = {})
                 => Occurrences(o.path) = 1

\* the scan returned after a listing failed, a file collected before the
\* failure is in the result, and so is a file of a path listed after it
C9_Witness ==
  /\ pc = "listed"
  /\ \E j, k \in 1..Len(listCalls) :
       /\ j < k
       /\ listCalls[j] \in listFailed
       /\ listCalls[k] \notin listFailed
       /\ \E before \in 1..(j - 1) : \E x, y \in 1..Len(allFiles) :
            /\ FolderOf(allFiles[x].path) = listCalls[before]
            /\ FolderOf(allFiles[y].path) = listCalls[k]

(***************************************************************************)
(* Properties of the cron check (SpecCron)                                 *)
(***************************************************************************)
\* the positions of the spaces of a string
Spaces(str) == {j \in 1..Len(str) : str[j] = " "}

\* the k-th of the space-separated fields of a string: what stands between
\* its (k-1)-th and its k-th space
FieldOf(str, k) ==
  LET ends == Spaces(str) \cup {0, Len(str) + 1}
      from == CHOOSE x \in ends : Cardinality({y \in ends : y < x}) = k - 1
      to == CHOOSE x \in ends : Cardinality({y \in ends : y < x}) = k
  IN SubSeq(str, from + 1, to - 1)

\* C10: a cron check returns true exactly when the expression has five
\* fields and its fields match, in this order, the minute, the hour, the day
\* of the month, the month (1..12) and the day of the week (0..6) of the
\* time of the check; it returns false for any other field count.
C10_ShouldRunIsFiveFieldMatch ==
  shouldRun # "none" =>
    /\ shouldRun \in {"true", "false"}
    /\ shouldRun = "true" <=>
         /\ Cardinality(Spaces(cronSchedule)) + 1 = 5
         /\ MatchCronField(FieldOf(cronSchedule, 1), now.minutes, 0, 59)
         /\ MatchCronField(FieldOf(cronSchedule, 2), now.hours, 0, 23)
         /\ MatchCronField(FieldOf(cronSchedule, 3), now.date, 1, 31)
         /\ MatchCronField(FieldOf(cronSchedule, 4), now.month, 1, 12)
         /\ MatchCronField(FieldOf(cronSchedule, 5), now.day, 0, 6)

\* a check in December returned true for an expression none of whose fields
\* is "*"
C10_Witness ==
  /\ shouldRun = "true"
  /\ now.month = 12
  /\ \A k \in 1..5 : FieldOf(cronSchedule, k) # <<"*">>

(***************************************************************************)
(* Properties of the cron check on step fields (SpecStep)                  *)
(***************************************************************************)
\* the calendar component of a time the k-th field is matched against
Component(date, k) ==
  CASE k = 1 -> date.minutes
    [] k = 2 -> date.hours
    [] k = 3 -> date.date
    [] k = 4 -> date.month
    [] k = 5 -> date.day

\* C11: a check of an expression whose k-th field is */b, b >= 1, and whose
\* other fields are "*" returns true exactly when the k-th calendar
\* component of the time is a multiple of b; so "*/15 * * * *" fires exactly
\* at the minutes that are multiples of 15.
C11_StepFieldMatchesMultiples ==
  shouldRun # "none" =>
    \A k \in 1..5, b \in Steps :
      cronSchedule = OneFieldSchedule(k, <<"*", "/">> \o Decimal(b))
        => (shouldRun = "true" <=> Component(now, k) % b = 0)

\* "*/15 * * * *" fired at minute 45
C11_Witness ==
  /\ shouldRun = "true"
  /\ cronSchedule = <<"*", "/", "1", "5", " ", "*", " ", "*", " ", "*", " ", "*">>
  /\ now.minutes = 45

(***************************************************************************)
(* Properties of the end of a run (Spec)                                   *)
(***************************************************************************)
\* backup() has returned
RunReturned == pc \in {"returned", "done"}

\* C12: a run whose enumeration returned no object has run metrics, with
\* totalFiles, successCount, skipCount and errorCount all 0, has executed no
\* batch and has issued no probe, read or write.
C12_EmptyRunYieldsZeroMetrics ==
  (RunReturned /\ N = 0) =>
    /\ metrics # <<>>
    /\ metrics.totalFiles = 0
    /\ metrics.successCount = 0
    /\ metrics.skipCount = 0
    /\ metrics.errorCount = 0
    /\ batchNo = 0
    /\ transfers = <<>>

\* C13: when a run has returned, with or without objects and with or
\* without failed ones, its metrics have been handed to the notifier exactly
\* once.
C13_NotifiedOncePerRun ==
  RunReturned => (notified = 1 /\ metrics # <<>>)

(***************************************************************************)
(* Properties of the process in one-time mode (SpecOnce)                   *)
(***************************************************************************)
\* C16: in one-time mode the process exits with 0 exactly when the run
\* returned, whatever the outcomes of the objects and of the notification,
\* and with 1 exactly when loadConfig or the run threw.
C16_ExitCodeOfOneTimeMode ==
  /\ exitCode \in {"none", "0", "1"}
  /\ exitCode = "0" => RunReturned
  /\ exitCode = "1" => pc \in {"fatal", "threw"}
  /\ (exitCode = "none" /\ pc \in {"done", "returned", "threw"}) => ENABLED MainExit

\* the process exited with 0 after a run whose objects all failed and whose
\* notification was not delivered
C16_Witness ==
  /\ exitCode = "0"
  /\ N > 0
  /\ errorCount = N
  /\ delivery = "failed"

\* C17: when a run has ended, by returning (with or without objects) or by
\* throwing, the staging directory does not exist, unless its removal was
\* tried and rejected.
C17_StagingDirRemovedAtEnd ==
  pc \in {"done", "returned", "threw"} =>
    (~tempDirExists \/ cleanup = "rejected")

(***************************************************************************)
(* Properties of the process in scheduler mode (SpecSched)                 *)
(***************************************************************************)
\* the runs in flight
RunsInFlight == {r \in DOMAIN runs : ~RunEnded(runs[r])}

\* C14: no run is started after a signal has arrived, and when the process
\* has exited every run it started has ended: a run in flight when the
\* signal arrived was left to finish.
C14_SignalLetsRunFinish ==
  /\ \A r \in DOMAIN runs : ~runs[r].afterSignal
  /\ exitCode # "none" => RunsInFlight = {}

\* C15: at most one run is in flight.
C15_OneRunInFlight == Cardinality(RunsInFlight) <= 1

(***************************************************************************)
(* Properties of two consecutive runs (SpecTwo)                            *)
(***************************************************************************)
\* the destination held an object under exactly the key of a path
HeldKey(dest, filePath) ==
  \E o \in dest : o.key = GenerateS3Key(s3Prefix, filePath)

\* C18: in a second run over the same source, an object whose probe worked
\* is skipped when the first run copied it, and is attempted again (a read
\* is issued for it) when the first run failed it and the destination the
\* first run left does not hold it.
C18_SecondRunSkipsCopiedRetriesFailed ==
  previous # <<>> =>
    \A f \in Objects :
      (Resolved(f) /\ transfers[f].probe # "failed") =>
        /\ previous.outcomes[f] = "success" => transfers[f].outcome = "skip"
        /\ (/\ previous.outcomes[f] = "error"
            /\ ~HeldKey(previous.dest, allFiles[f].path))
             => transfers[f].reads >= 1

(***************************************************************************)
(* Properties of a run whose requests and timers are served (SpecLive)     *)
(***************************************************************************)
\* C19: every transfer a batch has started eventually resolves, and a batch
\* that is awaited eventually completes, whether or not probes and reads
\* answer.
C19_BatchEventuallyCompletes ==
  /\ \A f \in 1..MaxFiles :
       InFlight(f) ~> (f \in DOMAIN transfers /\ transfers[f].pc = "resolved")
  /\ (pc = "await") ~> (pc = "loop")

\* the probe of an object did not answer, both its reads timed out, and the
\* transfer is about to resolve as failed
C19_Witness ==
  \E f \in Objects :
    /\ transfers[f].probe = "failed"
    /\ transfers[f].buffered = "failed"
    /\ transfers[f].pc = "catchRm"
    /\ transfers[f].err = ErrTimeout

(***************************************************************************)
(* Properties of one call of backupFile (SpecUnit)                         *)
(***************************************************************************)
\* backupFile has entered a copy strategy for object f
Tried(f) == transfers[f].buffered # "none" \/ transfers[f].staged # "none"

\* the buffered strategy was the first one tried for object f (the staged
\* one is the first when the buffered one was never entered)
BufferedFirst(f) == transfers[f].buffered # "none"

Attempts(f) ==
  (IF transfers[f].buffered # "none" THEN 1 ELSE 0)
    + (IF transfers[f].staged # "none" THEN 1 ELSE 0)

\* C21: within a run an object is probed at most once, and once when it was
\* started; each strategy is entered at most once for it, the staged one
\* only first or after the buffered one failed, with one source read per
\* strategy entered and at most one destination write per strategy; an
\* object that has resolved (as failed or otherwise) is in no later batch.
C21_OneProbeOneAttemptPerStrategy ==
  \A f \in Objects :
    /\ transfers[f].probes <= 1
    /\ transfers[f].probes = 1 <=> transfers[f].startedIn > 0
    /\ transfers[f].reads = Attempts(f)
    /\ transfers[f].reads <= 2
    /\ transfers[f].writes <= Attempts(f)
    /\ transfers[f].staged # "none" => transfers[f].buffered \in {"none", "failed"}
    /\ (Resolved(f) /\ batchNo > transfers[f].startedIn) => f \notin batch

\* the first object failed in both strategies, each having read the source
\* and written to the destination once, and a later batch ran without it
C21_Witness ==
  /\ pc = "done"
  /\ batchNo = 2
  /\ \E f \in Objects :
       /\ transfers[f].startedIn = 1
       /\ transfers[f].outcome = "error"
       /\ transfers[f].buffered = "failed"
       /\ transfers[f].staged = "failed"
       /\ transfers[f].reads = 2
       /\ transfers[f].writes = 2
       /\ transfers[f].probes = 1

(***************************************************************************)
(* Properties of the cron check on fields of each syntax (SpecRule)        *)
(***************************************************************************)
\* what the rules, taken in their order, make of a field of RuleFields for
\* the value v: "*" always; "*/b" the multiples of b; "a-b" the values from
\* a to b; a list its members; a number that value.  A number before "/" is
\* no step: n/b is read as the number n, a-b/c as the range a-b, a,b/c as
\* the list a,b.
RuleExpected(field, v) ==
  CASE field = <<"*">> -> TRUE
    [] field = <<"*", "/", "2">> -> v % 2 = 0
    [] field = <<"1", "-", "3">> -> v \in 1..3
    [] field = <<"0", ",", "2">> -> v \in {0, 2}
    [] field = <<"5">> -> v = 5
    [] field = <<"2", "/", "3">> -> v = 2
    [] field = <<"0", "/", "2">> -> v = 0
    [] field = <<"1", "-", "3", "/", "2">> -> v \in 1..3
    [] field = <<"0", ",", "4", "/", "2">> -> v \in {0, 4}
    [] field = <<"1", "-", "2", ",", "5">> -> v \in 1..2
    [] field = <<"*", "/", "3", "-", "5">> -> v % 3 = 0
    [] field = <<"*", "/", "4", ",", "5">> -> v % 4 = 0

\* C22: a field is decided by the first applicable rule in the order "*",
\* "*/b" step, "a-b" range, list, single number; the step test is applied
\* only when "*" stands before "/": a field n/b with a number n is never
\* matched as a step and is decided by the later rules.
C22_FirstApplicableRuleDecides ==
  shouldRun # "none" =>
    \A k \in 1..5, field \in RuleFields :
      cronSchedule = OneFieldSchedule(k, field)
        => (shouldRun = "true" <=> RuleExpected(field, Component(now, k)))

\* "2/3 * * * *" fired at minute 2, which is no multiple of 3
C22_Witness ==
  /\ shouldRun = "true"
  /\ cronSchedule = <<"2", "/", "3", " ", "*", " ", "*", " ", "*", " ", "*">>
  /\ now.minutes = 2

(***************************************************************************)
(* Properties of the queue of an enumeration (SpecList)                    *)
(***************************************************************************)
\* the number of segments of a path (0 for the root path "")
Level(q) == IF q = <<>> THEN 0 ELSE Depth(q) + 1

\* C23: during a scan no path is passed to list() twice, also when it was
\* put on the queue more than once; the first path listed is the root "",
\* and the paths are listed in the order of the queue, so breadth first: no
\* path after a path of more segments.
C23_EachPathListedOnceBreadthFirst ==
  /\ \A x, y \in 1..Len(listCalls) : x # y => listCalls[x] # listCalls[y]
  /\ processedFolders = {listCalls[x] : x \in 1..Len(listCalls)}
  /\ listCalls # <<>> => listCalls[1] = <<>>
  /\ \A x, y \in 1..Len(listCalls) :
       x < y => Level(listCalls[x]) <= Level(listCalls[y])

\* a scan has returned that was given the path a twice by the listing of the
\* root (as the folder of a/b and as the zero-byte object a), and that
\* listed paths of two levels below the root
C23_Witness ==
  /\ pc = "listed"
  /\ listFailed = {}
  /\ \E o, q \in bucket : o.size = 0 /\ FolderOf(q.path) = o.path
  /\ \E x \in 1..Len(listCalls) : Level(listCalls[x]) = 2

(***************************************************************************)
(* Properties of the classification of listed entries (SpecList)           *)
(***************************************************************************)
\* the paths on the queue
Queued == {foldersToProcess[x] : x \in 1..Len(foldersToProcess)}

\* some object of the bucket is stored below path q, so that the service
\* lists q as a folder (an entry without metadata)
IsStoredFolder(q) ==
  \E o \in bucket : IsPrefix(q \o <<"/">>, o.path)

\* C24: an entry is taken for a folder exactly when it has no metadata or no
\* size field: once the folder of an object has been listed, the object,
\* whose entry carries its size (0 included), is in the result with that
\* size, and its path is not queued or listed as a folder unless it is also
\* the path of a folder.
C24_SizedEntryIsAFile ==
  \A o \in bucket :
    FolderOf(o.path) \in processedFolders \ listFailed =>
      /\ \E j \in 1..Len(allFiles) :
           allFiles[j].path = o.path /\ allFiles[j].size = o.size
      /\ ~IsStoredFolder(o.path) => o.path \notin Queued \cup processedFolders

(***************************************************************************)
(* Properties of the staged files of a batch (Spec)                        *)
(***************************************************************************)
\* C25: the objects of a run have staged file names that differ pairwise;
\* so a transfer that has written its staged file and has not finished its
\* streamed upload still has that file, holding its own bytes, and every
\* destination object holds the bytes of the object it is the key of.
C25_StagedNamesDistinct ==
  /\ \A f, g \in Objects :
       f # g => TempFileName(allFiles[f].path) # TempFileName(allFiles[g].path)
  /\ \A f \in Objects :
       (transfers[f].pc = "uploadFile" /\ tempDirExists) => OwnStagedFile(f)
  /\ \A o \in s3 : o.key = GenerateS3Key(s3Prefix, o.content)

(***************************************************************************)
(* Properties of the existence probe (Spec)                                *)
(***************************************************************************)
\* C26: the probe of an object answers true only when the destination holds
\* an object under exactly the key of the object (no destination object is
\* removed during a run); so an object is skipped only then.
C26_ProbeTrueOnlyForExactKey ==
  \A f \in Objects :
    /\ transfers[f].probe = "true" => HeldKey(s3, allFiles[f].path)
    /\ transfers[f].outcome = "skip" => HeldKey(s3, allFiles[f].path)

(***************************************************************************)
(* Properties of the classification of outcomes (Spec)                     *)
(***************************************************************************)
\* C27: an object is counted as skipped only if its probe answered true;
\* an object for which a read was issued and whose transfer threw is counted
\* as failed, whatever the message of the error.
C27_SkipOnlyAfterProbeTrue ==
  /\ skipCount <= Cardinality({f \in Objects : transfers[f].probe = "true"})
  /\ \A f \in Objects :
       /\ transfers[f].outcome = "skip" => transfers[f].probe = "true"
       /\ (Resolved(f) /\ transfers[f].reads > 0) =>
            transfers[f].outcome \in {"success", "error"}

(***************************************************************************)
(* Properties of the batch loop for every batch size (Spec)                *)
(***************************************************************************)
\* C28: for every batch size loadConfig returns, each iteration of the
\* batch loop starts at least one object that was not started before (so
\* the loop ends after at most N iterations), and when the run reports its
\* metrics every object has been attempted and has resolved.
C28_RunEndsWithEveryObjectAttempted ==
  /\ pc = "await" =>
       /\ batch # {}
       /\ \A f \in batch : transfers[f].startedIn = batchNo
  /\ batchNo <= N
  /\ metrics # <<>> =>
       \A f \in Objects : transfers[f].startedIn > 0 /\ Resolved(f)

(***************************************************************************)
(* Properties of the scheduler after a failed run (SpecSched)              *)
(***************************************************************************)
\* a run has thrown
SomeRunThrew == \E r \in DOMAIN runs : runs[r].pc = "threw"

\* C29: after a run has thrown and while no signal has arrived, the process
\* has not exited; start() goes on to set the timer after an initial run
\* that threw; once polling the timer stays set, and a tick at which the
\* schedule matches starts a run (as long as fewer than MaxRuns runs were
\* started).
C29_ThrowingRunLeavesPollingOn ==
  (SomeRunThrew /\ ~signalled) =>
    /\ exitCode = "none"
    /\ schedPc \in {"initialRun", "polling"}
    /\ schedPc = "initialRun" => ENABLED InitialRunDone
    /\ schedPc = "polling" =>
         /\ intervalId
         /\ Len(runs) < MaxRuns =>
              ENABLED (Tick /\ shouldRun' = "true" /\ Len(runs') = Len(runs) + 1)

\* the initial run and a run started by a tick both threw, and a later tick
\* has started a third run
C29_Witness ==
  /\ Len(runs) = 3
  /\ runs[1].pc = "threw"
  /\ runs[2].pc = "threw"
  /\ runs[3].by = "tick"
  /\ shouldRun = "true"
  /\ exitCode = "none"

(***************************************************************************)
(* Properties of the staging directory under overlapping runs (SpecOverlap)*)
(***************************************************************************)
\* C30: while a transfer is between writing its staged file and the end of
\* its streamed upload, the staging directory and the staged file exist: no
\* run of the process has removed the directory underneath it.
C30_NoCleanupUnderStagedTransfer ==
  \A f \in Objects :
    transfers[f].pc = "uploadFile" =>
      /\ tempDirExists
      /\ TempExists(tempFiles, TempFileName(allFiles[f].path))

====
